---- MODULE Spec2Model ----
(***************************************************************************)
(* lifetimed-bytes: Bytes<'b>, a wrapper around the reference-counted      *)
(* bytes::Bytes buffer that carries the lifetime 'b of the memory it may   *)
(* borrow (src/src/lib.rs).                                                *)
(*                                                                         *)
(* Every method of the wrapper forwards to the method of the same name of  *)
(* bytes::Bytes (crate bytes 1.x) and re-attaches 'b with `.into()`.  The  *)
(* operators named Inner_* give what the forwarded call does to the view   *)
(* (pointer, length) of the inner buffer; the operators and actions named  *)
(* after the wrapper's methods are the lines of lib.rs.                    *)
(*                                                                         *)
(* Memory is a set of allocations (buffers); a view is an allocation, an   *)
(* offset into it and a length.  Allocation 0 is the static empty slice    *)
(* bytes::Bytes::new() points to.  A lifetime tag is 0 ('static) or the    *)
(* number of the caller-owned local buffer whose borrow it is.             *)
(***************************************************************************)
EXTENDS Integers, Sequences, FiniteSets, TLC

\* Bounds of the model.
MaxLen == 3
MaxAllocs == 2
\* Handle slots: of a program (a sequence of operations), and of a single call
\* (self, another handle, the result).
MaxProgHandles == 2
MaxHandles == 3

\* The byte values buffers are filled with.
ByteVals == {10, 20}

\* usize::MAX stands just above every length the model reaches.
UsizeMax == MaxLen + 1
Idx == 0..UsizeMax

Allocs == 1..MaxAllocs
Slots == 1..MaxHandles
STATIC == 0

VARIABLES
  mem,       \* mem[a]: the bytes of allocation a (<<>> while unallocated)
  kind,      \* kind[a]: "none" | "local" (a caller-owned Vec) | "owned" (owned by the shared buffer)
  freed,     \* freed[a]: the local buffer a went out of scope (drop(v))
  hs,        \* hs[i]: the value in handle slot i, or NoHandle
  it,        \* the consuming iterator, or NoIter
  last,      \* what the caller last did: the name of the call, or the result of a comparison
  args,      \* the arguments of that call and the slot of its result
  panicked   \* a fatal contract violation (panic) ended the program

vars == <<mem, kind, freed, hs, it, last, args, panicked>>

NoHandle == [wrapped |-> FALSE, live |-> FALSE]
NoIter == [live |-> FALSE]

Min(a, b) == IF a < b THEN a ELSE b

RECURSIVE SeqsUpTo(_)
SeqsUpTo(n) ==
  IF n = 0 THEN {<<>>}
  ELSE LET S == SeqsUpTo(n - 1) IN
       S \cup {Append(s, b) : s \in {t \in S : Len(t) = n - 1}, b \in ByteVals}

\* The code points strings are made of: two ASCII ones and one that takes two bytes.
CharVals == {10, 20, 200}

RECURSIVE StrsUpTo(_)
StrsUpTo(n) ==
  IF n = 0 THEN {<<>>}
  ELSE LET S == StrsUpTo(n - 1) IN
       S \cup {Append(s, c) : s \in {t \in S : Len(t) = n - 1}, c \in CharVals}

(***************************************************************************)
(* bytes::Bytes, the inner buffer: a view [alloc, off, len].               *)
(***************************************************************************)

\* bytes::Bytes::new(): the empty view of the static empty slice.
Inner_new == [alloc |-> 0, off |-> 0, len |-> 0]

\* The address of byte `off` of allocation a; allocations do not overlap.
Addr(a, off) == a * (UsizeMax + 1) + off

\* Deref / as_slice: the bytes a view denotes.
Inner_bytes(b) ==
  IF b.len = 0 THEN <<>> ELSE SubSeq(mem[b.alloc], b.off + 1, b.off + b.len)

\* A range bound, as core::ops::Bound: <<"Included", n>>, <<"Excluded", n>>, <<"Unbounded", 0>>.
Bounds == ({"Included", "Excluded"} \X Idx) \cup {<<"Unbounded", 0>>}

\* usize::checked_add(n, 1): -1 stands for None.
CheckedAdd1(n) == IF n >= UsizeMax THEN -1 ELSE n + 1

\* The results of an operation: whether it panicked, self afterwards, the value returned.
Panic(b) == [panic |-> TRUE, self |-> b, ret |-> Inner_new]
Ok(b, r) == [panic |-> FALSE, self |-> b, ret |-> r]

\* bytes::Bytes::slice(range)
Inner_slice(b, sb, eb) ==
  LET begin == CASE sb[1] = "Included" -> sb[2]
                 [] sb[1] = "Excluded" -> CheckedAdd1(sb[2])
                 [] OTHER -> 0
      end == CASE eb[1] = "Included" -> CheckedAdd1(eb[2])
               [] eb[1] = "Excluded" -> eb[2]
               [] OTHER -> b.len
  IN IF begin = -1 \/ end = -1 THEN Panic(b)          \* expect("out of range")
     ELSE IF ~(begin <= end) THEN Panic(b)             \* assert!(begin <= end)
     ELSE IF ~(end <= b.len) THEN Panic(b)             \* assert!(end <= len)
     ELSE IF end = begin THEN Ok(b, Inner_new)
     ELSE Ok(b, [alloc |-> b.alloc, off |-> b.off + begin, len |-> end - begin])

\* bytes::Bytes::slice_ref(subset): subset is a span [alloc, off, len] of memory.
Inner_slice_ref(b, sub) ==
  IF sub.len = 0 THEN Ok(b, Inner_new)                 \* an empty subset is a subset of anything
  ELSE LET bytes_p == Addr(b.alloc, b.off)
           sub_p == Addr(sub.alloc, sub.off)
       IN IF ~(sub_p >= bytes_p) THEN Panic(b)
          ELSE IF ~(sub_p + sub.len <= bytes_p + b.len) THEN Panic(b)
          ELSE Inner_slice(b, <<"Included", sub_p - bytes_p>>,
                              <<"Excluded", (sub_p - bytes_p) + sub.len>>)

\* bytes::Bytes::split_off(at)
Inner_split_off(b, at) ==
  IF ~(at <= b.len) THEN Panic(b)
  ELSE IF at = b.len THEN Ok(b, Inner_new)
  ELSE IF at = 0 THEN Ok(Inner_new, b)                 \* mem::replace(self, Bytes::new())
  ELSE Ok([b EXCEPT !.len = at],
          [b EXCEPT !.off = b.off + at, !.len = b.len - at])

\* bytes::Bytes::split_to(at)
Inner_split_to(b, at) ==
  IF ~(at <= b.len) THEN Panic(b)
  ELSE IF at = b.len THEN Ok(Inner_new, b)             \* mem::replace(self, Bytes::new())
  ELSE IF at = 0 THEN Ok(b, Inner_new)
  ELSE Ok([b EXCEPT !.off = b.off + at, !.len = b.len - at],
          [b EXCEPT !.len = at])

\* bytes::Bytes::truncate(len)
Inner_truncate(b, len) ==
  IF len < b.len THEN Ok([b EXCEPT !.len = len], Inner_new) ELSE Ok(b, Inner_new)

\* bytes::Bytes::clear(): self.truncate(0)
Inner_clear(b) == Inner_truncate(b, 0)

\* <bytes::Bytes as Buf>::remaining / advance
Inner_remaining(b) == b.len

Inner_advance(b, cnt) ==
  IF ~(cnt <= b.len) THEN Panic(b)                     \* "cannot advance past `remaining`"
  ELSE Ok([b EXCEPT !.off = b.off + cnt, !.len = b.len - cnt], Inner_new)


\* core::slice comparison of bytes: memcmp over the common prefix, then the lengths.
IntCmp(a, b) == IF a < b THEN "Less" ELSE IF a > b THEN "Greater" ELSE "Equal"

SliceCmp(x, y) ==
  LET n == Min(Len(x), Len(y))
      D == {k \in 1..n : x[k] # y[k]}
  IN IF D = {} THEN IntCmp(Len(x), Len(y))
     ELSE LET k == CHOOSE d \in D : \A e \in D : d <= e IN IntCmp(x[k], y[k])

SliceEq(x, y) == Len(x) = Len(y) /\ \A k \in 1..Len(x) : x[k] = y[k]

\* str::as_bytes: the UTF-8 encoding of a string, given as its code points (< 2048).
Utf8Char(c) == IF c < 128 THEN <<c>> ELSE <<192 + (c \div 64), 128 + (c % 64)>>

RECURSIVE as_bytes(_)
as_bytes(s) == IF s = <<>> THEN <<>> ELSE Utf8Char(Head(s)) \o as_bytes(Tail(s))

\* bytes::Bytes compared with a byte slice, and a byte slice with bytes::Bytes.
Inner_eq(b, x) == SliceEq(Inner_bytes(b), x)
Inner_partial_cmp(b, x) == SliceCmp(Inner_bytes(b), x)
Slice_eq_Inner(x, b) == Inner_eq(b, x)
Slice_partial_cmp_Inner(x, b) == SliceCmp(x, Inner_bytes(b))

(***************************************************************************)
(* Bytes<'b>, the wrapper: the inner view and the lifetime tag.  org is    *)
(* the region and tag the value was constructed with (kept for the         *)
(* statements about it; the program does not store it).                    *)
(***************************************************************************)

Wrap(inner, tag, org) ==
  [wrapped |-> TRUE, live |-> TRUE, inner |-> inner, tag |-> tag, org |-> org]

Region(inner, tag) == [alloc |-> inner.alloc, off |-> inner.off, len |-> inner.len, tag |-> tag]

\* `.into()` giving a result that is valid for any lifetime, as a method that
\* returned Bytes<'static> would.
into_static(inner, h) == Wrap(inner, STATIC, h.org)

\* From<bytes::Bytes> for Bytes<'b>, as `.into()` inside a method of Bytes<'b>:
\* the result type is Self, so the tag is self's.
into(inner, h) == Wrap(inner, h.tag, h.org)

\* A method's result on the wrapper: self keeps its tag, the returned buffer gets it.
Lift(h, r) ==
  [panic |-> r.panic, self |-> [h EXCEPT !.inner = r.self], ret |-> into(r.ret, h)]

new(tag) == Wrap(Inner_new, tag, Region(Inner_new, tag))
len(h) == h.inner.len
is_empty(h) == len(h) = 0
as_slice(h) == Inner_bytes(h.inner)

\* slice with a closed end taken as an open one.
slice_open_end(h, sb, eb) ==
  Lift(h, Inner_slice(h.inner, sb, IF eb[1] = "Included" THEN <<"Excluded", eb[2]>> ELSE eb))

slice(h, sb, eb) == Lift(h, Inner_slice(h.inner, sb, eb))

\* slice_ref that looks the subset's bytes up in self instead of its address.
slice_ref_by_content(h, sub) ==
  LET S == Inner_bytes(h.inner)
      X == Inner_bytes(sub)
      At == {k \in 0..(Len(S) - Len(X)) : SubSeq(S, k + 1, k + Len(X)) = X}
  IN IF At = {} THEN Lift(h, Panic(h.inner))
     ELSE LET k == CHOOSE a \in At : \A b \in At : a <= b
          IN Lift(h, Inner_slice(h.inner, <<"Included", k>>, <<"Excluded", k + Len(X)>>))

slice_ref(h, sub) == Lift(h, Inner_slice_ref(h.inner, sub))

\* split_off forwarding to the other split.
split_off_as_split_to(h, at) == Lift(h, Inner_split_to(h.inner, at))

split_off(h, at) == Lift(h, Inner_split_off(h.inner, at))
split_to(h, at) == Lift(h, Inner_split_to(h.inner, at))

\* truncate forwarding to clear, whatever the length asked for.
truncate_as_clear(h, n) == Lift(h, Inner_clear(h.inner))

truncate(h, n) == Lift(h, Inner_truncate(h.inner, n))
clear(h) == Lift(h, Inner_clear(h.inner))
remaining(h) == Inner_remaining(h.inner)
chunk(h) == as_slice(h)

\* advance that clamps the count to what remains.
advance_clamped(h, cnt) == Lift(h, Inner_advance(h.inner, Min(cnt, h.inner.len)))

advance(h, cnt) == Lift(h, Inner_advance(h.inner, cnt))

\* From<&'b [u8]>: the slice's lifetime becomes the tag; the view is the slice (from_static).
from_slice(span, tag) == Wrap(span, tag, Region(span, tag))

\* From<&'b str>: s.as_bytes().into()
from_str(span, tag) == from_slice(span, tag)

\* From<Vec<u8>>, FromIterator<u8>: the whole of a buffer the shared buffer owns.
from_vec(a, n, tag) ==
  LET v == [alloc |-> a, off |-> 0, len |-> n] IN Wrap(v, tag, Region(v, tag))

\* The conversion implemented for every lifetime: impl<'b> From<Bytes<'b>> for bytes::Bytes.
CanIntoBytes_any(h) == TRUE

\* From<Bytes<'static>> for bytes::Bytes is implemented for the 'static tag only.
CanIntoBytes(h) == h.tag = STATIC

\* The bare bytes::Bytes: a type without a lifetime parameter.
Bare(inner) ==
  [wrapped |-> FALSE, live |-> TRUE, inner |-> inner, tag |-> STATIC,
   org |-> Region(inner, STATIC)]

into_bytes(h) == Bare(h.inner)

\* PartialEq / PartialOrd / Ord of the wrapper, each forwarded to the inner buffer.
eq_slice(h, x) == Inner_eq(h.inner, x)                    \* Bytes<'b> == [u8], Vec<u8>, &[u8]
slice_eq(x, h) == Slice_eq_Inner(x, h.inner)              \* [u8], Vec<u8>, &[u8], [u8; N] == Bytes<'b>
eq_str(h, s) == Inner_eq(h.inner, as_bytes(s))            \* Bytes<'b> == str, String, &str
str_eq(s, h) == Slice_eq_Inner(as_bytes(s), h.inner)
eq(h, o) == Inner_eq(h.inner, Inner_bytes(o.inner))       \* Bytes<'b> == Bytes<'a>, bytes::Bytes
partial_cmp_slice(h, x) == Inner_partial_cmp(h.inner, x)
\* [u8] compared with Bytes<'b> with the operands the wrong way round.
slice_partial_cmp_unswapped(x, h) == Inner_partial_cmp(h.inner, x)
slice_partial_cmp(x, h) == Slice_partial_cmp_Inner(x, h.inner)
partial_cmp_str(h, s) == Inner_partial_cmp(h.inner, as_bytes(s))
str_partial_cmp(s, h) == Slice_partial_cmp_Inner(as_bytes(s), h.inner)
partial_cmp(h, o) == Inner_partial_cmp(h.inner, Inner_bytes(o.inner))
cmp(h, o) == SliceCmp(Inner_bytes(h.inner), Inner_bytes(o.inner))

\* bytes::buf::IntoIter over the inner buffer: next() and size_hint().
\* An Option<u8> is <<>> (None) or <<b>> (Some(b)).
IntoIter_next(b) ==
  IF Inner_remaining(b) = 0 THEN [item |-> <<>>, inner |-> b]
  ELSE [item |-> <<Inner_bytes(b)[1]>>, inner |-> Inner_advance(b, 1).self]

\* size_hint left to Iterator's default, (0, None) (None written -1).
size_hint_default(b) == <<0, -1>>

size_hint(b) == <<Inner_remaining(b), Inner_remaining(b)>>


(***************************************************************************)
(* The program: caller code that owns local buffers, builds handles over   *)
(* them and over owned data, and calls the wrapper's methods.              *)
(***************************************************************************)

\* What buffers are filled with: for each first byte, the bytes alternating from it.
Alternating(b, n) == [k \in 1..n |-> IF k % 2 = 1 THEN b ELSE CHOOSE c \in ByteVals : c # b]
\* The bytes buffer a is filled with: a different first byte for neighbouring buffers.
Content(a) == Alternating(IF a % 2 = 1 THEN 10 ELSE 20, MaxLen)

Tags == {STATIC} \cup Allocs

Live == {i \in Slots : hs[i].live}
Wrapped == {i \in Slots : hs[i].live /\ hs[i].wrapped}
Free == {i \in Slots : ~hs[i].live}

\* A new value goes to the lowest free slot.
IsNextSlot(r) == r \in Free /\ \A q \in Free : r <= q

\* Buffers are numbered by what they are: the odd ones are local buffers of the caller,
\* the even ones buffers that move into the shared buffer.
KindOf(a) == IF a % 2 = 1 THEN "local" ELSE "owned"

\* Lifetimes a value may be given where the code leaves 'b to the caller: 'static, or
\* the borrow of a local buffer still in scope.
OpenTags == {STATIC} \cup {a \in Allocs : kind[a] = "local" /\ ~freed[a]}

\* The spans of memory a &[u8] can point to: inside a buffer that is still there.
AllSpans == {[alloc |-> a, off |-> o, len |-> n] : a \in Allocs, o \in 0..MaxLen, n \in 0..MaxLen}

ValidSpans ==
  {sp \in AllSpans : /\ kind[sp.alloc] # "none" /\ ~freed[sp.alloc]
                     /\ sp.off + sp.len <= Len(mem[sp.alloc])}

\* The ranges of a buffer of MaxLen bytes a caller may borrow.
Ranges == {r \in [off : 0..1, len : 0..MaxLen] : r.off + r.len = MaxLen}

Init ==
  /\ mem = [a \in 0..MaxAllocs |-> <<>>]
  /\ kind = [a \in 0..MaxAllocs |-> IF a = 0 THEN "static" ELSE "none"]
  /\ freed = [a \in 0..MaxAllocs |-> FALSE]
  /\ hs = [i \in Slots |-> NoHandle]
  /\ it = NoIter
  /\ last = "init"
  /\ args = <<>>
  /\ panicked = FALSE

\* A method that returns (): self is updated, or the call panics and nothing is.
ApplyMut(i, res) ==
  /\ IF res.panic
       THEN /\ panicked' = TRUE
            /\ hs' = hs
       ELSE /\ panicked' = FALSE
            /\ hs' = [hs EXCEPT ![i] = res.self]
  /\ UNCHANGED <<mem, kind, freed, it>>

\* A method that returns a handle: self is updated and the result stored, or the call
\* panics and nothing is.
ApplyRet(i, r, res) ==
  /\ IF res.panic
       THEN /\ panicked' = TRUE
            /\ hs' = hs
       ELSE /\ IsNextSlot(r)
            /\ panicked' = FALSE
            /\ hs' = [hs EXCEPT ![i] = res.self, ![r] = res.ret]
  /\ UNCHANGED <<mem, kind, freed, it>>

\* A constructor: the new value goes to the next free slot.
Construct(r, h) ==
  /\ IsNextSlot(r)
  /\ hs' = [hs EXCEPT ![r] = h]
  /\ UNCHANGED <<freed, it, panicked>>

New(tag, r) ==
  /\ ~panicked
  /\ tag \in OpenTags
  /\ Construct(r, new(tag))
  /\ UNCHANGED <<mem, kind>>

\* let v = b"..".to_vec(); Bytes::from(&v[off .. off + len]): the borrow of v is the tag.
FromSlice(a, rg, r) ==
  /\ ~panicked
  /\ a \in Allocs /\ kind[a] = "none" /\ KindOf(a) = "local"
  /\ mem' = [mem EXCEPT ![a] = Content(a)]
  /\ kind' = [kind EXCEPT ![a] = "local"]
  /\ Construct(r, from_slice([alloc |-> a, off |-> rg.off, len |-> rg.len], a))

\* let s = String::from(..); Bytes::from(&s[off .. off + len])
FromStr(a, rg, r) ==
  /\ ~panicked
  /\ a \in Allocs /\ kind[a] = "none" /\ KindOf(a) = "local"
  /\ mem' = [mem EXCEPT ![a] = Content(a)]
  /\ kind' = [kind EXCEPT ![a] = "local"]
  /\ Construct(r, from_str([alloc |-> a, off |-> rg.off, len |-> rg.len], a))

\* Bytes::from(vec) and iter.collect(): the buffer moves into the shared buffer.
FromVec(a, tag, r) ==
  /\ ~panicked
  /\ tag \in OpenTags
  /\ a \in Allocs /\ kind[a] = "none" /\ KindOf(a) = "owned"
  /\ mem' = [mem EXCEPT ![a] = Content(a)]
  /\ kind' = [kind EXCEPT ![a] = "owned"]
  /\ Construct(r, from_vec(a, Len(Content(a)), tag))

\* #[derive(Clone)]
Clone(i, r) ==
  /\ ~panicked
  /\ i \in Live
  /\ Construct(r, hs[i])
  /\ UNCHANGED <<mem, kind>>

Slice(i, sb, eb, r) ==
  /\ ~panicked /\ i \in Wrapped
  /\ ApplyRet(i, r, slice(hs[i], sb, eb))

SliceRef(i, sub, r) ==
  /\ ~panicked /\ i \in Wrapped
  /\ sub \in ValidSpans
  /\ ApplyRet(i, r, slice_ref(hs[i], sub))

SplitOff(i, at, r) ==
  /\ ~panicked /\ i \in Wrapped
  /\ ApplyRet(i, r, split_off(hs[i], at))

SplitTo(i, at, r) ==
  /\ ~panicked /\ i \in Wrapped
  /\ ApplyRet(i, r, split_to(hs[i], at))

\* truncate that shortens every handle of the allocation, as a buffer shared by
\* reference would.
Truncate_shared(i, n) ==
  /\ ~panicked /\ i \in Wrapped
  /\ hs' = [j \in Slots |->
             IF hs[j].live /\ hs[j].wrapped /\ hs[j].inner.alloc = hs[i].inner.alloc
               THEN truncate(hs[j], n).self ELSE hs[j]]
  /\ UNCHANGED <<mem, kind, freed, it, panicked>>

Truncate(i, n) ==
  /\ ~panicked /\ i \in Wrapped
  /\ ApplyMut(i, truncate(hs[i], n))

Clear(i) ==
  /\ ~panicked /\ i \in Wrapped
  /\ ApplyMut(i, clear(hs[i]))

Advance(i, cnt) ==
  /\ ~panicked /\ i \in Wrapped
  /\ ApplyMut(i, advance(hs[i], cnt))

\* bytes::Bytes::from(l): only a Bytes<'static> has this conversion.
IntoBytes(i) ==
  /\ ~panicked /\ i \in Wrapped
  /\ CanIntoBytes(hs[i])
  /\ hs' = [hs EXCEPT ![i] = into_bytes(hs[i])]
  /\ UNCHANGED <<mem, kind, freed, it, panicked>>

\* Bytes::from(b) for a bare buffer b: any tag.
FromBytes(i, tag) ==
  /\ ~panicked /\ i \in Live /\ ~hs[i].wrapped
  /\ tag \in OpenTags
  /\ hs' = [hs EXCEPT ![i] = Wrap(hs[i].inner, tag, Region(hs[i].inner, tag))]
  /\ UNCHANGED <<mem, kind, freed, it, panicked>>

DropHandle(i) ==
  /\ ~panicked /\ i \in Live
  /\ hs' = [hs EXCEPT ![i] = NoHandle]
  /\ UNCHANGED <<mem, kind, freed, it, panicked>>

\* The values whose type mentions the borrow of local buffer a.
Borrowers(a) == {i \in Live : hs[i].tag = a}

\* drop(v), or the end of v's scope: the borrow checker accepts it only when no value
\* whose type carries the borrow of v is used afterwards.
DropLocal(a) ==
  /\ ~panicked
  /\ a \in Allocs /\ kind[a] = "local" /\ ~freed[a]
  /\ Borrowers(a) = {}
  /\ ~(it.live /\ it.tag = a)
  /\ freed' = [freed EXCEPT ![a] = TRUE]
  /\ UNCHANGED <<mem, kind, hs, it, panicked>>

\* into_iter(self): the handle is consumed.
IntoIter(i) ==
  /\ ~panicked /\ i \in Wrapped
  /\ ~it.live
  /\ it' = [live |-> TRUE, inner |-> hs[i].inner, tag |-> hs[i].tag,
            src |-> as_slice(hs[i]), out |-> <<>>, calls |-> 0, item |-> <<>>]
  /\ hs' = [hs EXCEPT ![i] = NoHandle]
  /\ UNCHANGED <<mem, kind, freed, panicked>>

\* next() on the iterator.
IterNext ==
  /\ ~panicked /\ it.live
  /\ it.calls < Len(it.src) + 2
  /\ LET n == IntoIter_next(it.inner) IN
       it' = [it EXCEPT !.inner = n.inner,
                        !.out = @ \o n.item,
                        !.calls = @ + 1,
                        !.item = n.item]
  /\ UNCHANGED <<mem, kind, freed, hs, panicked>>

DropIter ==
  /\ ~panicked /\ it.live
  /\ it' = NoIter
  /\ UNCHANGED <<mem, kind, freed, hs, panicked>>

\* a.partial_cmp(&b) for two values: nothing changes but the caller's result.
Compare(i, j) ==
  /\ ~panicked /\ i \in Wrapped /\ j \in Live
  /\ UNCHANGED <<mem, kind, freed, hs, it, panicked>>

\* The half-open ranges start..end.
HalfOpen == {<<sb, eb>> \in Bounds \X Bounds : sb[1] = "Included" /\ eb[1] = "Excluded"}

ProgSlots == 1..MaxProgHandles

\* Where a call's result goes: the lowest free slot (any slot when none is free: the
\* call can still panic).
RetSlots(S) ==
  IF S \cap Free # {} THEN {r \in S : IsNextSlot(r)} ELSE {CHOOSE r \in S : TRUE}

\* A program: any sequence of constructions, method calls and drops.
Next ==
  \/ \E t \in Tags, r \in RetSlots(ProgSlots) : New(t, r) /\ UNCHANGED <<last, args>>
  \/ \E a \in Allocs, rg \in Ranges, r \in RetSlots(ProgSlots) :
       FromSlice(a, rg, r) /\ UNCHANGED <<last, args>>
  \/ \E a \in Allocs, rg \in Ranges, r \in RetSlots(ProgSlots) :
       FromStr(a, rg, r) /\ UNCHANGED <<last, args>>
  \/ \E a \in Allocs, t \in Tags, r \in RetSlots(ProgSlots) :
       FromVec(a, t, r) /\ UNCHANGED <<last, args>>
  \/ \E i \in ProgSlots, r \in RetSlots(ProgSlots) : Clone(i, r) /\ UNCHANGED <<last, args>>
  \/ \E i \in ProgSlots, r \in RetSlots(ProgSlots), b \in HalfOpen :
       Slice(i, b[1], b[2], r) /\ UNCHANGED <<last, args>>
  \/ \E i \in ProgSlots, r \in RetSlots(ProgSlots), sub \in AllSpans :
       SliceRef(i, sub, r) /\ UNCHANGED <<last, args>>
  \/ \E i \in ProgSlots, r \in RetSlots(ProgSlots), at \in Idx :
       SplitOff(i, at, r) /\ UNCHANGED <<last, args>>
  \/ \E i \in ProgSlots, r \in RetSlots(ProgSlots), at \in Idx :
       SplitTo(i, at, r) /\ UNCHANGED <<last, args>>
  \/ \E i \in ProgSlots, n \in Idx : Truncate(i, n) /\ UNCHANGED <<last, args>>
  \/ \E i \in ProgSlots : Clear(i) /\ UNCHANGED <<last, args>>
  \/ \E i \in ProgSlots, cnt \in Idx : Advance(i, cnt) /\ UNCHANGED <<last, args>>
  \/ \E i \in ProgSlots : IntoBytes(i) /\ UNCHANGED <<last, args>>
  \/ \E i \in ProgSlots, t \in Tags : FromBytes(i, t) /\ UNCHANGED <<last, args>>
  \/ \E i \in ProgSlots : DropHandle(i) /\ UNCHANGED <<last, args>>
  \/ \E a \in Allocs : DropLocal(a) /\ UNCHANGED <<last, args>>

Spec == Init /\ [][Next]_vars


(***************************************************************************)
(* One call: a method applied to a handle in any configuration a program   *)
(* can bring about (slot 1: self, slot 2: another value, or none).         *)
(***************************************************************************)

\* Every buffer allocated and in scope.
World ==
  /\ mem = [a \in 0..MaxAllocs |-> IF a = 0 THEN <<>> ELSE Content(a)]
  /\ kind = [a \in 0..MaxAllocs |-> IF a = 0 THEN "static" ELSE KindOf(a)]
  /\ freed = [a \in 0..MaxAllocs |-> FALSE]
  /\ it = NoIter
  /\ last = "init"
  /\ args = <<>>
  /\ panicked = FALSE

\* The views a handle can have: the empty static one, and the ranges of the buffers.
Views == {Inner_new} \cup {v \in AllSpans : v.off + v.len <= MaxLen}

Whole(a) == [alloc |-> a, off |-> 0, len |-> MaxLen]

LocalTags == {a \in Allocs : KindOf(a) = "local"}

\* The handles with view v a program can hold: over a local buffer with the tag of its
\* borrow, over an owned buffer with any tag.
HandlesOver(v) ==
  IF v.alloc = 0 THEN {new(t) : t \in {STATIC} \cup LocalTags}
  ELSE IF KindOf(v.alloc) = "local"
    THEN {Wrap(v, v.alloc, Region(Whole(v.alloc), v.alloc))}
    ELSE {Wrap(v, t, Region(Whole(v.alloc), t)) : t \in {STATIC} \cup LocalTags}

Handles == UNION {HandlesOver(v) : v \in Views}

\* The same with the tag the constructor gives when the caller asks for nothing else.
PlainHandles == {h \in Handles : h.tag = (IF h.inner.alloc = 0 THEN STATIC
                                          ELSE IF KindOf(h.inner.alloc) = "local"
                                            THEN h.inner.alloc ELSE STATIC)}

Values == Handles \cup {Bare(h.inner) : h \in {g \in Handles : g.tag = STATIC}}

InitCall ==
  /\ World
  /\ \E h \in PlainHandles, o \in PlainHandles \cup {NoHandle} :
       hs = [i \in Slots |-> IF i = 1 THEN h ELSE IF i = 2 THEN o ELSE NoHandle]

\* The one call: nothing was called yet; its name and arguments are kept.
Idle == last = "init"

Call(op, a) == last' = op /\ args' = a

NextCall ==
  \/ Idle /\ \E sb, eb \in Bounds, r \in RetSlots(Slots) :
       Slice(1, sb, eb, r) /\ Call("slice", <<sb, eb, r>>)
  \/ Idle /\ \E sub \in AllSpans, r \in RetSlots(Slots) :
       SliceRef(1, sub, r) /\ Call("slice_ref", <<sub, r>>)
  \/ Idle /\ \E at \in Idx, r \in RetSlots(Slots) :
       SplitOff(1, at, r) /\ Call("split_off", <<at, r>>)
  \/ Idle /\ \E at \in Idx, r \in RetSlots(Slots) :
       SplitTo(1, at, r) /\ Call("split_to", <<at, r>>)
  \/ Idle /\ \E n \in Idx : Truncate(1, n) /\ Call("truncate", <<n>>)
  \/ Idle /\ Clear(1) /\ Call("clear", <<>>)
  \/ Idle /\ \E cnt \in Idx : Advance(1, cnt) /\ Call("advance", <<cnt>>)
  \/ Idle /\ \E r \in RetSlots(Slots) : Clone(1, r) /\ Call("clone", <<r>>)

SpecCall == InitCall /\ [][NextCall]_vars

(***************************************************************************)
(* Consuming iteration over a handle in any configuration.                 *)
(***************************************************************************)

InitIter ==
  /\ World
  /\ \E h \in Handles :
       hs = [i \in Slots |-> IF i = 1 THEN h ELSE NoHandle]

NextIter ==
  \/ IntoIter(1) /\ last' = "into_iter" /\ UNCHANGED args
  \/ IterNext /\ last' = "next" /\ UNCHANGED args
  \/ DropIter /\ last' = "drop_iter" /\ UNCHANGED args

SpecIter == InitIter /\ [][NextIter]_vars

(***************************************************************************)
(* Comparison of two values in any configuration.                          *)
(***************************************************************************)

InitCmp ==
  /\ World
  /\ \E h \in Handles, o \in Values :
       hs = [i \in Slots |-> IF i = 1 THEN h ELSE IF i = 2 THEN o ELSE NoHandle]

NextCmp ==
  Compare(1, 2) /\ last' = partial_cmp(hs[1], hs[2]) /\ UNCHANGED args

SpecCmp == InitCmp /\ [][NextCmp]_vars


(***************************************************************************)
(* The properties stated of the crate, C1 to C10.                           *)
(***************************************************************************)

\* The bytes S[from, to) of a sequence, counted from 0.
Sub(S, from, to) == SubSeq(S, from + 1, to)

\* The bytes seen through slot j once the step is taken.
ViewAfter(j) ==
  LET b == hs'[j].inner IN
  IF b.len = 0 THEN <<>> ELSE SubSeq(mem'[b.alloc], b.off + 1, b.off + b.len)

\* The start and the end a range denotes over a view of n bytes.
RangeStart(sb) ==
  CASE sb[1] = "Included" -> sb[2] [] sb[1] = "Excluded" -> sb[2] + 1 [] OTHER -> 0
RangeEnd(eb, n) ==
  CASE eb[1] = "Included" -> eb[2] + 1 [] eb[1] = "Excluded" -> eb[2] [] OTHER -> n
InBounds(sb, eb, n) == RangeStart(sb) <= RangeEnd(eb, n) /\ RangeEnd(eb, n) <= n

\* A span lies within a view: the same buffer, and its range inside the view's.
Within(sub, b) ==
  /\ sub.alloc = b.alloc
  /\ b.off <= sub.off
  /\ sub.off + sub.len <= b.off + b.len

MutatingOps == {"truncate", "clear", "split_off", "split_to", "advance"}

\* C2: a mutating operation (truncate, clear, split_off, split_to, advance) on one
\* handle changes neither the content nor the length seen through any other handle,
\* modifies and copies no byte of any buffer, and leaves self and the handle it
\* returns inside the view self had.
C2_OthersUntouched ==
  [][last' \in MutatingOps =>
       /\ mem' = mem /\ kind' = kind
       /\ \A j \in Slots \ {1} :
            hs[j].live =>
              /\ hs'[j].live
              /\ len(hs'[j]) = len(hs[j])
              /\ ViewAfter(j) = as_slice(hs[j])
       /\ \A j \in Slots :
            (hs'[j].live /\ hs'[j] # hs[j] /\ len(hs'[j]) > 0) =>
              Within(hs'[j].inner, hs[1].inner)
  ]_vars

\* A truncate of a handle while a longer handle over the same bytes exists.
C2_Witness ==
  /\ last = "truncate" /\ ~panicked
  /\ hs[2].live /\ hs[2].inner.alloc = hs[1].inner.alloc /\ hs[1].inner.alloc # 0
  /\ hs[2].inner.off = hs[1].inner.off
  /\ len(hs[2]) > len(hs[1]) /\ len(hs[1]) > 0 /\ len(hs[1]) = args[1]

\* C3: for a handle with content S and at <= len(S), split_off(at) leaves S[0, at) in
\* self and returns S[at, len); split_to(at) leaves S[at, len) in self and returns
\* S[0, at); the front part followed by the back part is S.
C3_SplitPartitions ==
  [][last' \in {"split_off", "split_to"} =>
       LET S == as_slice(hs[1])
           at == args'[1]
           r == args'[2]
           front == IF last' = "split_off" THEN 1 ELSE r
           back == IF last' = "split_off" THEN r ELSE 1
       IN at <= Len(S) =>
            /\ ~panicked' /\ hs'[r].live /\ r # 1
            /\ ViewAfter(front) = Sub(S, 0, at)
            /\ ViewAfter(back) = Sub(S, at, Len(S))
            /\ ViewAfter(front) \o ViewAfter(back) = S
  ]_vars

\* A split_off inside the view: both parts hold bytes and the back one starts where
\* the front one ends.
C3_Witness ==
  /\ last = "split_off" /\ ~panicked
  /\ LET r == args[2] IN
       /\ hs[r].live /\ len(hs[1]) > 0 /\ len(hs[r]) > 0
       /\ len(hs[1]) = args[1]
       /\ hs[r].inner.alloc = hs[1].inner.alloc
       /\ hs[r].inner.off = hs[1].inner.off + len(hs[1])

\* C4: slice(range) with a range within [0, len] returns a handle whose content is
\* the bytes of self's view in that range and whose length is the range's, and
\* leaves self, its content and its length, as they were.
C4_SliceContent ==
  [][last' = "slice" =>
       LET S == as_slice(hs[1])
           sb == args'[1]
           eb == args'[2]
           r == args'[3]
       IN InBounds(sb, eb, Len(S)) =>
            /\ ~panicked' /\ hs'[r].live /\ r # 1
            /\ ViewAfter(r) = Sub(S, RangeStart(sb), RangeEnd(eb, Len(S)))
            /\ len(hs'[r]) = RangeEnd(eb, Len(S)) - RangeStart(sb)
            /\ hs'[1] = hs[1] /\ ViewAfter(1) = S
  ]_vars

\* A slice of two bytes or more, shorter than self and starting after self does.
C4_Witness ==
  /\ last = "slice" /\ ~panicked
  /\ LET r == args[3] IN
       /\ hs[r].live /\ len(hs[r]) >= 2 /\ len(hs[r]) < len(hs[1])
       /\ hs[r].inner.alloc = hs[1].inner.alloc
       /\ hs[r].inner.off > hs[1].inner.off

\* C6: truncate(n) leaves self with the first min(n, len) bytes of its view: nothing
\* changes when n >= len, the view never grows, and a second truncate(n) changes
\* nothing; clear() leaves self as truncate(0) does, empty, and a second clear()
\* changes nothing.
C6_TruncateClear ==
  [][LET S == as_slice(hs[1]) IN
     /\ last' = "truncate" =>
          LET n == args'[1] IN
          /\ ~panicked'
          /\ ViewAfter(1) = Sub(S, 0, Min(n, Len(S)))
          /\ n >= Len(S) => hs'[1] = hs[1]
          /\ len(hs'[1]) <= Len(S)
          /\ ~truncate(hs'[1], n).panic /\ truncate(hs'[1], n).self = hs'[1]
     /\ last' = "clear" =>
          /\ ~panicked'
          /\ hs'[1] = truncate(hs[1], 0).self
          /\ is_empty(hs'[1])
          /\ ~clear(hs'[1]).panic /\ clear(hs'[1]).self = hs'[1]
  ]_vars

\* A truncate that shortened a view to a length that is not 0.
C6_Witness ==
  /\ last = "truncate" /\ ~panicked
  /\ len(hs[1]) > 0 /\ len(hs[1]) = args[1]
  /\ hs[1].inner.off + len(hs[1]) < MaxLen

\* C7: advance(n) with n beyond what remains, split_off(at) and split_to(at) with
\* at > len, and slice(range) with a range not within the view all panic, and leave
\* every handle as it was: no offset is clamped, no handle returned.
C7_OutOfBoundsPanics ==
  [][LET n == len(hs[1])
         OutOfBounds ==
           \/ last' \in {"advance", "split_off", "split_to"} /\ args'[1] > n
           \/ last' = "slice" /\ ~InBounds(args'[1], args'[2], n)
     IN OutOfBounds => (panicked' /\ hs' = hs /\ mem' = mem)
  ]_vars

\* An advance beyond the end of a handle that holds bytes.
C7_Witness ==
  /\ last = "advance" /\ panicked
  /\ len(hs[1]) > 0 /\ args[1] > len(hs[1])

\* C8 as stated: slice_ref(subset) returns a handle for exactly the sub-span when
\* subset lies within self's view (a zero-length one included), and panics for every
\* subset that does not.
C8_AsStated ==
  [][last' = "slice_ref" =>
       LET sub == args'[1]
           r == args'[2]
       IN IF Within(sub, hs[1].inner)
            THEN /\ ~panicked' /\ hs'[r].live
                 /\ len(hs'[r]) = sub.len
                 /\ sub.len > 0 => hs'[r].inner = sub
            ELSE panicked'
  ]_vars

\* C8, amended: for a subset that is not empty, slice_ref(subset) returns a handle
\* for exactly that span (same buffer, offset and length) when it lies within self's
\* view, and panics when it does not, equal bytes elsewhere included; for an empty
\* subset, wherever it lies, it returns an empty handle and does not panic.
C8_SliceRefByAddress ==
  [][last' = "slice_ref" =>
       LET sub == args'[1]
           r == args'[2]
       IN IF sub.len = 0
            THEN ~panicked' /\ hs'[r].live /\ is_empty(hs'[r]) /\ hs'[1] = hs[1]
            ELSE IF Within(sub, hs[1].inner)
              THEN ~panicked' /\ hs'[r].live /\ hs'[r].inner = sub /\ hs'[1] = hs[1]
              ELSE panicked' /\ hs' = hs
  ]_vars

\* A slice_ref that returned a part of self that holds bytes and starts after self does.
C8_Witness ==
  /\ last = "slice_ref" /\ ~panicked
  /\ LET r == args[2] IN
       /\ hs[r].live /\ len(hs[r]) > 0 /\ len(hs[r]) < len(hs[1])
       /\ hs[r].inner = args[1]
       /\ hs[r].inner.off > hs[1].inner.off

\* C9: consuming iteration over a handle whose view is S yields the bytes of S, each
\* once, from left to right: after k calls of next the items yielded are the first
\* min(k, len(S)) bytes of S, the k-th call returned S[k] (nothing once k > len(S)),
\* and size_hint reports len(S) - min(k, len(S)) as both its lower and upper bound.
C9_IterationYieldsView ==
  it.live =>
    LET n == Len(it.src)
        k == Min(it.calls, n)
    IN /\ it.out = SubSeq(it.src, 1, k)
       /\ size_hint(it.inner) = <<n - k, n - k>>
       /\ it.calls > 0 => it.item = (IF it.calls <= n THEN <<it.src[it.calls]>> ELSE <<>>)
       /\ it.calls > n => IntoIter_next(it.inner).item = <<>>

\* An iteration over a view of MaxLen bytes that went past its end.
C9_Witness ==
  /\ it.live /\ Len(it.src) = MaxLen
  /\ it.calls > MaxLen /\ it.out = it.src

\* Lexicographic order of byte sequences, stated without a scan: x is less than y
\* when they agree on a prefix after which x ends and y does not, or x has the
\* smaller byte.
LexLess(x, y) ==
  \E k \in 0..Min(Len(x), Len(y)) :
    /\ SubSeq(x, 1, k) = SubSeq(y, 1, k)
    /\ \/ k = Len(x) /\ k < Len(y)
       \/ k < Len(x) /\ k < Len(y) /\ x[k + 1] < y[k + 1]

LexOrd(x, y) == IF x = y THEN "Equal" ELSE IF LexLess(x, y) THEN "Less" ELSE "Greater"

Flip(o) == IF o = "Less" THEN "Greater" ELSE IF o = "Greater" THEN "Less" ELSE "Equal"

C1_NoUseAfterScope ==
  \A i \in Live :
    LET a == hs[i].inner.alloc IN
    /\ ~freed[a]
    /\ kind[a] # "none"
    /\ kind[a] = "local" => (hs[i].wrapped /\ hs[i].tag = a)

\* A local buffer went out of scope after handles were built over it, and a bare
\* buffer with bytes in it is still live.
C1_Witness ==
  \E a \in Allocs :
    /\ freed[a] /\ kind[a] = "local"
    /\ \E i \in Live : ~hs[i].wrapped /\ hs[i].inner.len > 0

\* C5: every handle carries the tag it, or the handle it derives from, was
\* constructed with, and its view is a contiguous part of the region denoted at that
\* construction (an empty view is the empty part): no sequence of slice, slice_ref,
\* split_off, split_to, truncate, clear, advance and clone grows a view or changes
\* the tag.
C5_SameTagSubRange ==
  \A i \in Wrapped :
    LET h == hs[i] IN
    /\ h.tag = h.org.tag
    /\ h.inner.len <= h.org.len
    /\ h.inner.len > 0 =>
         /\ h.inner.alloc = h.org.alloc
         /\ h.org.off <= h.inner.off
         /\ h.inner.off + h.inner.len <= h.org.off + h.org.len
         /\ h.inner.off + h.inner.len <= Len(mem[h.inner.alloc])

\* Two handles derived from one construction over a local buffer, each a proper,
\* non-empty part of the region, the second starting after the region does.
C5_Witness ==
  /\ hs[1].live /\ hs[1].wrapped /\ hs[2].live /\ hs[2].wrapped
  /\ hs[1].org = hs[2].org /\ hs[1].tag # STATIC
  /\ hs[1].inner.len > 0 /\ hs[2].inner.len > 0
  /\ hs[1].inner.len + hs[2].inner.len < hs[1].org.len
  /\ hs[2].inner.off > hs[2].org.off

====
